---- MODULE Spec2Model ----
(***************************************************************************)
(* Vector quotient filter with 8-bit tags and 8-bit values                 *)
(* (src/src/vqf_filter.c, src/include/vqf_filter.h), scalar code path      *)
(* (VQF_USE_AVX undefined).                                                *)
(*                                                                         *)
(* A 64-bit word is the set of its set bit positions (a subset of 0..63):  *)
(* TLC's integers are 32 bits wide.  A tag cell (uint16_t) is an integer   *)
(* 0..65535, tag in the low byte and value in the high byte.               *)
(***************************************************************************)
EXTENDS Integers, FiniteSets, Sequences, TLC

----------------------------------------------------------------------------
(* Program constants *)

TAG_BITS == 8
TAG_MASK == 255
QUQU_SLOTS_PER_BLOCK == 28
QUQU_BUCKETS_PER_BLOCK == 36
QUQU_CHECK_ALT == 43
MD_HALF_BYTES == 4
MD_BYTES == 8
LOCK_BIT == 63
UINT8_RANGE == 256
UINT16_RANGE == 65536
ALT_MULT_HI == 23505
ALT_MULT_LO == 59797

WordBits == 0..63
LOCK_MASK == {LOCK_BIT}
UNLOCK_MASK == WordBits \ {LOCK_BIT}
UINT64_MAX == WordBits
\* a value held in a 64-bit word: its bits, listed
u64(w) == {i \in WordBits : i \in w}
Slots == 0..(QUQU_SLOTS_PER_BLOCK - 1)

----------------------------------------------------------------------------
(* Bit primitives on 64-bit words *)

\* number of set bits of mask strictly below position i
RankBelow(mask, i) == Cardinality(mask \cap (0..(i - 1)))

word_rank(val) == Cardinality(val)

\* BMI2 pdep: the low bits of src are deposited, in order, at the set
\* positions of mask
pdep_u64(src, mask) == u64({i \in mask : RankBelow(mask, i) \in src})

\* BMI2 pext: the bits of src at the set positions of mask, packed low
pext_u64(src, mask) == {RankBelow(mask, i) : i \in (src \cap mask)}

tzcnt_u64(w) == IF w = {} THEN 64 ELSE CHOOSE i \in w : \A j \in w : i <= j

shr64(w, n) == {i - n : i \in {j \in w : j >= n}}

shl64(w, n) == {i + n : i \in {j \in w : j + n <= 63}}

\* a - b modulo 2^64, by ripple borrow from bit i upwards
RECURSIVE sub64_from(_, _, _, _)
sub64_from(a, b, i, borrow) ==
  IF i > 63 THEN {}
  ELSE LET out == ((i \notin a) /\ (i \in b))
                  \/ (((i \in a) = (i \in b)) /\ borrow)
       IN  (IF ((i \in a) # (i \in b)) # borrow THEN {i} ELSE {})
           \cup sub64_from(a, b, i + 1, out)

sub64(a, b) == sub64_from(a, b, 0, FALSE)

\* the low 16 bits of a word as an integer (the uint16_t that overlays them)
RECURSIVE low16_from(_, _)
low16_from(w, i) ==
  IF i > 15 THEN 0
  ELSE (IF i \in w THEN 1 ELSE 0) + 2 * low16_from(w, i + 1)

low16(w) == low16_from(w, 0)

\* a XOR b for 0 <= a, b < 2^16
RECURSIVE xor16_from(_, _, _)
xor16_from(a, b, n) ==
  IF n = 0 THEN 0
  ELSE (IF (a % 2) # (b % 2) THEN 1 ELSE 0)
       + 2 * xor16_from(a \div 2, b \div 2, n - 1)

xor16(a, b) == xor16_from(a, b, 16)

\* vqf_precompute.h: one[rank] is the word with only bit rank set
one(rank) == {rank}

\* vqf_precompute.h: low_order_pdep_table[index] is the word with every bit
\* but bit index set (entries 0..63)
low_order_pdep_table(index, past) ==
  IF index \in WordBits THEN WordBits \ {index} ELSE past

\* what a read past the 64 entries of the table may yield
PastTable == {{}, UINT64_MAX}

\* the words low_order_pdep_table[index] may be, for an uint8_t index
table_past(index) == IF index \in WordBits THEN {{}} ELSE PastTable

lookup_64(vector, rank) ==
  shl64(shr64(pdep_u64(one(rank), vector), rank), MD_HALF_BYTES)

select_64(vector, rank) == tzcnt_u64(lookup_64(vector, rank))

\* update_md that leaves the metadata word as it is
update_md_keep(md, index, past) == md

update_md(md, index, past) == pdep_u64(md, low_order_pdep_table(index, past))

remove_md(md, index, past) ==
  u64(pext_u64(md, low_order_pdep_table(index, past)) \cup LOCK_MASK)

\* free space counted on the low 63 bits only, the lock bit left out
get_block_free_space_low63(vector) == word_rank(vector \cap UNLOCK_MASK)

get_block_free_space(vector) == word_rank(vector)

----------------------------------------------------------------------------
(* Filter construction and bucket addressing *)

\* build configuration: the locking code is compiled in (#ifdef ENABLE_THREADS)
ENABLE_THREADS == TRUE

\* vqf_init with the block count rounded up: ceil((nslots + 28) / 28)
vqf_init_metadata_ceil(nslots) ==
  LET total_blocks == (nslots + 2 * QUQU_SLOTS_PER_BLOCK - 1) \div QUQU_SLOTS_PER_BLOCK
  IN  [ total_size_in_bytes |-> (MD_BYTES + 2 * QUQU_SLOTS_PER_BLOCK) * total_blocks,
        nslots             |-> total_blocks * QUQU_SLOTS_PER_BLOCK,
        key_remainder_bits |-> TAG_BITS,
        range              |-> total_blocks * QUQU_BUCKETS_PER_BLOCK * UINT8_RANGE,
        nblocks            |-> total_blocks,
        nelts              |-> 0 ]

vqf_init_metadata(nslots) ==
  LET total_blocks == (nslots + QUQU_SLOTS_PER_BLOCK) \div QUQU_SLOTS_PER_BLOCK
  IN  [ total_size_in_bytes |-> (MD_BYTES + 2 * QUQU_SLOTS_PER_BLOCK) * total_blocks,
        nslots             |-> total_blocks * QUQU_SLOTS_PER_BLOCK,
        key_remainder_bits |-> TAG_BITS,
        range              |-> total_blocks * QUQU_BUCKETS_PER_BLOCK * UINT8_RANGE,
        nblocks            |-> total_blocks,
        nelts              |-> 0 ]

\* the block array after vqf_init: metadata words all ones below the top
\* bit; the tag cells come from malloc and hold whatever was there (cell)
vqf_init_blocks(nslots, cell) ==
  [b \in 0..(vqf_init_metadata(nslots).nblocks - 1) |->
     [md |-> u64(UINT64_MAX \cap UNLOCK_MASK), tags |-> [i \in Slots |-> cell]]]

hash_tag(hash) == hash % UINT8_RANGE

primary_bucket(hash) == hash \div UINT8_RANGE

\* ((hash ^ (tag * 0x5bd1e995)) % range) >> 8 for hash < 2^16, with the
\* product kept in two 16-bit halves: 0x5bd1e995 = ALT_MULT_HI * 2^16 + ALT_MULT_LO
alt_bucket(hash, range) ==
  LET tag == hash_tag(hash)
      lo  == tag * ALT_MULT_LO
      hi  == tag * ALT_MULT_HI + (lo \div UINT16_RANGE)
      x   == xor16(hash, lo % UINT16_RANGE)
  IN  ((((hi % range) * (UINT16_RANGE % range)) + x) % range) \div UINT8_RANGE

block_of(bucket) == bucket \div QUQU_BUCKETS_PER_BLOCK

offset_of(bucket) == bucket % QUQU_BUCKETS_PER_BLOCK

----------------------------------------------------------------------------
(* Block codec: tag array shifts (the memmove variants) *)

\* the slot an uint8_t index (cell position counted from the block start)
\* designates after "index -= 4"
tag_slot(index) == ((index % UINT8_RANGE) - MD_HALF_BYTES) % UINT8_RANGE

\* memmove length (28 - index - 1) * 2 is negative, i.e. huge as a size_t
update_tags_512_overrun(index) == tag_slot(index) > QUQU_SLOTS_PER_BLOCK - 1

update_tags_512(tags, index, tag) ==
  LET s == tag_slot(index)
  IN  [i \in Slots |-> IF i < s THEN tags[i]
                       ELSE IF i = s THEN tag
                       ELSE tags[i - 1]]

\* memmove length (28 - index) * 2 is negative, i.e. huge as a size_t
remove_tags_512_overrun(index) == tag_slot(index) > QUQU_SLOTS_PER_BLOCK

\* past is the uint16_t that follows tags[27] in memory: the memmove copies
\* 28 - index cells starting at tags[index + 1], so it reads tags[28]
remove_tags_512(tags, index, past) ==
  LET s == tag_slot(index)
  IN  [i \in Slots |-> IF i < s THEN tags[i]
                       ELSE IF i < QUQU_SLOTS_PER_BLOCK - 1 THEN tags[i + 1]
                       ELSE past]

\* what follows tags[27] of block b: the low 16 bits of the next block's
\* metadata word (the blocks are packed), or, after the last block, memory
\* outside the allocation
\* what a read past the last block may yield
PastBlocks == {0, UINT16_RANGE - 1}

cell_past(B, b) ==
  IF b + 1 \in DOMAIN B THEN {low16(B[b + 1].md)} ELSE PastBlocks

\* the bits of a 16-bit cell, placed at 16-bit lane l of a word
cell_bits(cell, l) ==
  {16 * l + i : i \in {j \in 0..15 : (cell \div (2 ^ j)) % 2 = 1}}

\* the store "block->tags[s] = cell" for any s: past slot 27 it lands in the
\* following blocks (4 lanes of metadata word, then 28 tag cells, per block)
\* or outside the allocation, where the model keeps no memory
store_cell(B, b, s, cell) ==
  LET lanes == MD_HALF_BYTES + QUQU_SLOTS_PER_BLOCK
      lane  == lanes * b + MD_HALF_BYTES + s
      tb    == lane \div lanes
      l     == lane % lanes
  IN  IF tb \notin DOMAIN B THEN B
      ELSE IF l < MD_HALF_BYTES
           THEN [B EXCEPT ![tb].md =
                   u64((@ \ {16 * l + i : i \in 0..15}) \cup cell_bits(cell, l))]
           ELSE [B EXCEPT ![tb].tags[l - MD_HALF_BYTES] = cell]

----------------------------------------------------------------------------
(* Match scanner and lookups *)

\* the slots of a bucket's run, as generate_match_mask delimits them
bucket_span(B, block_index) ==
  LET index  == block_of(block_index)
      offset == offset_of(block_index)
      start  == IF offset # 0 THEN lookup_64(B[index].md, offset - 1)
                ELSE shl64(one(0), MD_HALF_BYTES)
      end    == lookup_64(B[index].md, offset)
  IN  shr64(sub64(end, start), MD_HALF_BYTES)

\* generate_match_mask comparing the whole 16-bit cell with the tag
generate_match_mask_cell(B, tag, block_index) ==
  LET index  == block_of(block_index)
      result == {i \in Slots : B[index].tags[i] = tag}
      mask   == bucket_span(B, block_index)
  IN  u64(mask \cap result)

generate_match_mask(B, tag, block_index) ==
  LET index  == block_of(block_index)
      result == {i \in Slots : (B[index].tags[i] % (TAG_MASK + 1)) = tag}
      mask   == bucket_span(B, block_index)
  IN  u64(mask \cap result)

\* check_tags comparing the whole cell, value byte included
check_tags_cell(B, tag, block_index) ==
  \E i \in bucket_span(B, block_index) \cap Slots :
    B[block_of(block_index)].tags[i] = tag

check_tags(B, tag, block_index) == generate_match_mask(B, tag, block_index) # {}

vqf_is_present(B, M, hash) ==
  \/ check_tags(B, hash_tag(hash), primary_bucket(hash))
  \/ check_tags(B, hash_tag(hash), alt_bucket(hash, M.range))

\* __builtin_ffs takes an int: only the low 32 bits of the mask are seen
builtin_ffs(mask) ==
  LET low == {i \in mask : i < 32}
  IN  IF low = {} THEN 0 ELSE tzcnt_u64(low) + 1

\* val is the caller's variable, left alone when nothing matches
retrieve_value(B, tag, block_index, val) ==
  LET mask      == generate_match_mask(B, tag, block_index)
      first_set == builtin_ffs(mask) - 1
  IN  IF first_set = -1 THEN [ret |-> FALSE, val |-> val]
      ELSE [ret |-> TRUE,
            val |-> B[block_of(block_index)].tags[first_set] \div UINT8_RANGE]

\* vqf_query searching the alternate bucket before the primary one
vqf_query_alt_first(B, M, hash, val) ==
  LET r1 == retrieve_value(B, hash_tag(hash), alt_bucket(hash, M.range), val)
  IN  IF r1.ret THEN r1
      ELSE retrieve_value(B, hash_tag(hash), primary_bucket(hash), r1.val)

vqf_query(B, M, hash, val) ==
  LET r1 == retrieve_value(B, hash_tag(hash), primary_bucket(hash), val)
  IN  IF r1.ret THEN r1
      ELSE retrieve_value(B, hash_tag(hash), alt_bucket(hash, M.range), r1.val)

\* the cells of the slots in mask, lowest slot first
RECURSIVE push_matches(_, _, _, _)
push_matches(tags, mask, i, values) ==
  IF {j \in mask : j >= i} = {} THEN values
  ELSE push_matches(tags, mask, i + 1,
                    IF i \in mask THEN Append(values, tags[i] \div UINT8_RANGE)
                    ELSE values)

retrieve_values(B, tag, block_index, values) ==
  LET mask == generate_match_mask(B, tag, block_index)
  IN  IF mask = {} THEN [ret |-> FALSE, values |-> values]
      ELSE [ret |-> TRUE,
            values |-> push_matches(B[block_of(block_index)].tags, mask, 0, values)]

vqf_query_iter(B, M, hash, values) ==
  LET r1 == retrieve_values(B, hash_tag(hash), primary_bucket(hash), values)
  IN  IF r1.ret THEN r1
      ELSE retrieve_values(B, hash_tag(hash), alt_bucket(hash, M.range), r1.values)

----------------------------------------------------------------------------
(* Per-block spinlock: the top bit of the metadata word.  lock() and unlock() *)
(* address the block's metadata word (&block.md); the TAG_BITS == 8 branch    *)
(* writes "block.md + 1", left from the two-word metadata layout.             *)

\* whether __sync_fetch_and_or finds the bit clear, so that the spin loop ends
lock_free(B, b) == (~ENABLE_THREADS) \/ (LOCK_BIT \notin B[b].md)

lock(B, b) ==
  IF ENABLE_THREADS THEN [B EXCEPT ![b].md = u64(@ \cup LOCK_MASK)] ELSE B

unlock(B, b) ==
  IF ENABLE_THREADS THEN [B EXCEPT ![b].md = u64(@ \cap UNLOCK_MASK)] ELSE B

\* lock_blocks taking the higher bucket index first
lock_blocks_desc(index1, index2) ==
  IF index1 < index2 THEN <<block_of(index2), block_of(index1)>>
  ELSE <<block_of(index1), block_of(index2)>>

\* the blocks in the order lock_blocks locks them
lock_blocks(index1, index2) ==
  IF index1 < index2 THEN <<block_of(index1), block_of(index2)>>
  ELSE <<block_of(index2), block_of(index1)>>

\* unlock_blocks releasing the first block twice
unlock_blocks_twice(index1, index2) ==
  IF index1 < index2 THEN <<block_of(index1), block_of(index1)>>
  ELSE <<block_of(index2), block_of(index2)>>

\* the blocks in the order unlock_blocks unlocks them
unlock_blocks(index1, index2) ==
  IF index1 < index2 THEN <<block_of(index1), block_of(index2)>>
  ELSE <<block_of(index2), block_of(index1)>>

----------------------------------------------------------------------------------------------------------------------------------------
(* One call of vqf_insert_val or vqf_remove as a sequence of steps, each    *)
(* with at most one access to shared memory.  c is the call's frame: its    *)
(* program counter and locals; held lists the locks the call holds and      *)
(* nacq every lock() that returned, both in acquisition order.              *)
(*                                                                          *)
(* A step yields the set of its possible outcomes.  Where the code's        *)
(* behaviour is undefined there are several: a memmove whose length has     *)
(* wrapped around either ends the process or returns (the frame is then     *)
(* marked ub: memory outside the model has been overwritten); a read past   *)
(* the last block or past the end of low_order_pdep_table yields any value. *)

NoCall ==
  [pc |-> "idle", op |-> "none", hash |-> 0, val |-> 0, block_index |-> 0,
   alt_block_index |-> 0, block_free |-> 0, slot_index |-> 0,
   select_index |-> 0, mask |-> {}, tmp |-> {}, ret |-> FALSE, ub |-> FALSE,
   held |-> <<>>, nacq |-> <<>>]

NewCall(op, hash, val, M) ==
  [NoCall EXCEPT !.pc = IF op = "insert" THEN "i_lock" ELSE "r_scan1",
                 !.op = op, !.hash = hash, !.val = val,
                 !.block_index = primary_bucket(hash),
                 !.alt_block_index = alt_bucket(hash, M.range)]

Done(c, ret) == [c EXCEPT !.pc = "done", !.ret = ret]

Crash(c) == [c EXCEPT !.pc = "crashed"]

Acquire(c, b) ==
  IF ENABLE_THREADS
  THEN [c EXCEPT !.held = Append(@, b), !.nacq = Append(@, b)]
  ELSE c

RECURSIVE without(_, _)
without(s, b) ==
  IF s = <<>> THEN <<>>
  ELSE IF Head(s) = b THEN Tail(s)
  ELSE <<Head(s)>> \o without(Tail(s), b)

Release(c, b) == [c EXCEPT !.held = without(@, b)]

stored_tag(c) == hash_tag(c.hash) + c.val * UINT8_RANGE

\* lock(b), then continue at next; a call that finds the bit set keeps spinning
LockStep(B, c, b, next) ==
  IF lock_free(B, b)
  THEN [B |-> lock(B, b), c |-> [Acquire(c, b) EXCEPT !.pc = next]]
  ELSE [B |-> B, c |-> c]

InsertStep(B, c) ==
  LET prim == primary_bucket(c.hash)
      alt  == c.alt_block_index
      cur  == block_of(c.block_index)
  IN CASE c.pc = "i_lock" ->
            {LockStep(B, c, block_of(prim), "i_free")}
       [] c.pc = "i_free" ->
            LET free == get_block_free_space(B[block_of(prim)].md)
            IN  {[B |-> B,
                  c |-> [c EXCEPT !.block_free = free,
                                  !.pc = IF free < QUQU_CHECK_ALT
                                            /\ block_of(prim) # block_of(alt)
                                         THEN "i_unlock1" ELSE "i_select"]]}
       [] c.pc = "i_unlock1" ->
            {[B |-> unlock(B, block_of(prim)),
              c |-> [Release(c, block_of(prim)) EXCEPT !.pc = "i_lockA"]]}
       [] c.pc = "i_lockA" ->
            {LockStep(B, c, lock_blocks(prim, alt)[1], "i_lockB")}
       [] c.pc = "i_lockB" ->
            {LockStep(B, c, lock_blocks(prim, alt)[2], "i_altfree")}
       [] c.pc = "i_altfree" ->
            LET alt_block_free == get_block_free_space(B[block_of(alt)].md)
            IN  {[B |-> B,
                  c |-> [c EXCEPT !.pc =
                           IF alt_block_free > c.block_free THEN "i_switch"
                           ELSE IF c.block_free = QUQU_BUCKETS_PER_BLOCK
                                THEN "i_fullA"
                           ELSE "i_unlock_alt"]]}
       [] c.pc = "i_switch" ->
            {[B |-> unlock(B, block_of(prim)),
              c |-> [Release(c, block_of(prim)) EXCEPT !.block_index = alt,
                                                       !.pc = "i_select"]]}
       [] c.pc = "i_fullA" ->
            LET b == unlock_blocks(prim, alt)[1]
            IN  {[B |-> unlock(B, b),
                  c |-> [Release(c, b) EXCEPT !.pc = "i_fullB"]]}
       [] c.pc = "i_fullB" ->
            LET b == unlock_blocks(prim, alt)[2]
            IN  {[B |-> unlock(B, b), c |-> Done(Release(c, b), FALSE)]}
       [] c.pc = "i_unlock_alt" ->
            {[B |-> unlock(B, block_of(alt)),
              c |-> [Release(c, block_of(alt)) EXCEPT !.pc = "i_select"]]}
       [] c.pc = "i_select" ->
            LET slot_index == select_64(B[cur].md, offset_of(c.block_index))
            IN  {[B |-> B,
                  c |-> [c EXCEPT !.slot_index = slot_index,
                                  !.select_index =
                                     (slot_index + offset_of(c.block_index)
                                      - MD_HALF_BYTES) % UINT8_RANGE,
                                  !.pc = "i_tags"]]}
       [] c.pc = "i_tags" ->
            IF update_tags_512_overrun(c.slot_index)
            THEN {[B |-> B, c |-> Crash(c)],
                  [B |-> store_cell(B, cur, tag_slot(c.slot_index),
                                    stored_tag(c)),
                   c |-> [c EXCEPT !.ub = TRUE, !.pc = "i_md_load"]]}
            ELSE {[B |-> [B EXCEPT ![cur].tags =
                            update_tags_512(@, c.slot_index, stored_tag(c))],
                   c |-> [c EXCEPT !.pc = "i_md_load"]]}
       [] c.pc = "i_md_load" ->
            {[B |-> B, c |-> [c EXCEPT !.tmp = B[cur].md, !.pc = "i_md_store"]]}
       [] c.pc = "i_md_store" ->
            {[B |-> [B EXCEPT ![cur].md = update_md(c.tmp, c.select_index, w)],
              c |-> [c EXCEPT !.tmp = {}, !.pc = "i_unlock"]]
               : w \in table_past(c.select_index)}
       [] c.pc = "i_unlock" ->
            {[B |-> unlock(B, cur), c |-> Done(Release(c, cur), TRUE)]}

RemoveStep(B, c) ==
  LET prim == primary_bucket(c.hash)
      alt  == c.alt_block_index
      cur  == block_of(c.block_index)
      tag  == hash_tag(c.hash)
  IN CASE c.pc = "r_scan1" ->
            LET m == generate_match_mask(B, tag, prim)
            IN  {[B |-> B,
                  c |-> [c EXCEPT !.mask = m,
                                  !.pc = IF m # {} THEN "r_tags" ELSE "r_scan2"]]}
       [] c.pc = "r_scan2" ->
            LET m == generate_match_mask(B, tag, alt)
            IN  {[B |-> B,
                  c |-> IF m # {}
                        THEN [c EXCEPT !.mask = m, !.block_index = alt,
                                       !.pc = "r_tags"]
                        ELSE Done(c, FALSE)]}
       [] c.pc = "r_tags" ->
            LET remove_index == tzcnt_u64(c.mask)
                next == [c EXCEPT !.mask = {},
                                  !.select_index =
                                     (remove_index + offset_of(c.block_index)
                                      - MD_BYTES) % UINT8_RANGE,
                                  !.pc = "r_md_load"]
            IN  IF remove_tags_512_overrun(remove_index)
                THEN {[B |-> B, c |-> Crash(c)],
                      [B |-> B, c |-> [next EXCEPT !.ub = TRUE]]}
                ELSE {[B |-> [B EXCEPT ![cur].tags =
                                remove_tags_512(@, remove_index, past)],
                       c |-> next]
                        : past \in cell_past(B, cur)}
       [] c.pc = "r_md_load" ->
            {[B |-> B, c |-> [c EXCEPT !.tmp = B[cur].md, !.pc = "r_md_store"]]}
       [] c.pc = "r_md_store" ->
            {[B |-> [B EXCEPT ![cur].md = remove_md(c.tmp, c.select_index, w)],
              c |-> Done([c EXCEPT !.tmp = {}], TRUE)]
               : w \in table_past(c.select_index)}

Step(B, c) == IF c.op = "insert" THEN InsertStep(B, c) ELSE RemoveStep(B, c)

\* a whole call by a single caller: the steps in order until the call
\* returns, the process dies, or the call spins on a lock bit that nobody
\* is left to clear ("hung"); the set of possible outcomes
RECURSIVE Run(_, _)
Run(B, c) ==
  IF c.pc \in {"done", "crashed", "hung"} THEN {[B |-> B, c |-> c]}
  ELSE LET rs == Step(B, c)
       IN  IF rs = {[B |-> B, c |-> c]}
           THEN {[B |-> B, c |-> [c EXCEPT !.pc = "hung"]]}
           ELSE UNION {Run(r.B, r.c) : r \in rs}

vqf_insert_val(B, M, hash, val) == Run(B, NewCall("insert", hash, val, M))

vqf_insert(B, M, hash) == vqf_insert_val(B, M, hash, 0)

vqf_remove(B, M, hash) == Run(B, NewCall("remove", hash, 0, M))

----------------
(* Inputs.  A hash is bucket * 256 + tag; the filter has two blocks, so      *)
(* buckets 0..35 lie in block 0 and buckets 36..71 in block 1.               *)

MaxOps == 3
MaxCalls == 1
InitSlots == 28

\* bucket 12, tag 1; alternate bucket 37, in the other block
KeyA == 12 * UINT8_RANGE + 1
\* bucket 0, tag 42; alternate bucket 18, in the same block
KeyS == 0 * UINT8_RANGE + 42
\* bucket 18, tag 42; alternate bucket 0: the tag and both buckets of KeyS
KeyT == 18 * UINT8_RANGE + 42
\* bucket 3, tag 1; alternate bucket 42, in the other block
KeyD == 3 * UINT8_RANGE + 1
\* bucket 4, tag 1; alternate bucket 45, in the other block
KeyB == 4 * UINT8_RANGE + 1
\* tag 0 makes the alternate bucket the primary one: buckets 5 and 41
FillLow == 5 * UINT8_RANGE
FillHigh == 41 * UINT8_RANGE
\* bucket 35, the last of block 0, tag 0
FillTop == 35 * UINT8_RANGE

Hashes == {KeyA, KeyS, KeyT}
Vals == {0, 7}
AllHashes == Hashes \cup {KeyB, KeyD, FillLow, FillHigh, FillTop}
Threads == {"t1", "t2"}

\* what malloc left in the tag cells
Garbage == {0, 7 * UINT8_RANGE + 1}

\* filters built before the calls under study: <<hash, value, how many
\* vqf_insert_val calls>>, made in this order by the single caller
Plans ==
  { <<>>,
    << <<FillLow, 0, 3>> >>,
    << <<FillLow, 0, 21>> >>,
    << <<FillLow, 0, 28>>, <<FillHigh, 0, 28>> >>,
    << <<FillLow, 0, 27>>, <<FillTop, 0, 1>> >>,
    << <<FillLow, 0, 27>>, <<FillHigh, 0, 27>> >> }

PlansConc ==
  { <<>>,
    << <<FillHigh, 0, 27>>, <<KeyB, 7, 4>>, <<FillLow, 0, 23>> >>,
    << <<FillHigh, 0, 28>>, <<KeyB, 7, 4>>, <<FillLow, 0, 23>> >> }

----------------------------------------------------------------------------
(* State *)

VARIABLES
  blocks,     \* filter->blocks: [md, tags] per block
  metadata,   \* filter->metadata
  status,     \* "ok", or how the process stopped being trustworthy
  load,       \* what is left of the plan that builds the filter
  last,       \* the latest insert or remove call, with the blocks before it
  prev,       \* the insert or remove call before that one
  probe,      \* the latest lookup and what it returned
  inserted,   \* hashes passed to an insert call
  live,       \* hashes whose latest insert returned true, not removed since
  insvals,    \* per hash, the values of its inserts that returned true
  noremove,   \* no vqf_remove call so far
  removed,    \* hashes whose vqf_remove returned true
  nops,       \* number of insert and remove calls after the load
  thr,        \* per thread, the frame of its call in progress
  calls,      \* per thread, number of calls started
  res,        \* per thread, the calls that returned, in order
  blocks0     \* the blocks when the load was over

vars ==
  <<blocks, metadata, status, load, last, prev, probe, inserted, live,
    insvals, noremove, removed, nops, thr, calls, res, blocks0>>

NoOp(B) ==
  [op |-> "none", hash |-> 0, val |-> 0, returned |-> FALSE, ret |-> FALSE,
   present |-> FALSE, target |-> 0, before |-> B]

NoProbe == [op |-> "none", hash |-> 0, ret |-> FALSE, values |-> <<>>]

\* the filter as vqf_init returns it
InitWith(plan, cell) ==
  /\ metadata = vqf_init_metadata(InitSlots)
  /\ blocks = vqf_init_blocks(InitSlots, cell)
  /\ blocks0 = blocks
  /\ status = "ok"
  /\ load = plan
  /\ last = NoOp(blocks)
  /\ prev = NoOp(blocks)
  /\ probe = NoProbe
  /\ inserted = {}
  /\ live = {}
  /\ insvals = [h \in AllHashes |-> <<>>]
  /\ noremove = TRUE
  /\ removed = {}
  /\ nops = 0
  /\ thr = [t \in Threads |-> NoCall]
  /\ calls = [t \in Threads |-> 0]
  /\ res = [t \in Threads |-> <<>>]

Init == \E plan \in Plans, cell \in Garbage : InitWith(plan, cell)

InitConc == \E plan \in PlansConc, cell \in Garbage : InitWith(plan, cell)

----------------------------------------------------------------------------
(* One caller: every call runs from entry to return *)

Outcome(c) ==
  CASE c.pc = "crashed" -> "crashed"
    [] c.pc = "hung"    -> "hung"
    [] c.ub             -> "corrupt"
    [] OTHER            -> "ok"

Returned(c) == c.pc = "done"

Mutated(op, h, v, r) ==
  /\ blocks' = r.B
  /\ blocks0' = r.B
  /\ status' = Outcome(r.c)
  /\ prev' = last
  /\ last' = [op |-> op, hash |-> h, val |-> v, returned |-> Returned(r.c),
              ret |-> Returned(r.c) /\ r.c.ret,
              present |-> vqf_is_present(blocks, metadata, h),
              target |-> r.c.block_index, before |-> blocks]
  /\ probe' = NoProbe
  /\ UNCHANGED <<metadata, thr, calls, res>>

Inserted(h, v, r) ==
  /\ Mutated("insert", h, v, r)
  /\ inserted' = inserted \cup {h}
  /\ live' = IF Returned(r.c) /\ r.c.ret THEN live \cup {h} ELSE live
  /\ insvals' = IF Returned(r.c) /\ r.c.ret
                THEN [insvals EXCEPT ![h] = Append(@, v)] ELSE insvals
  /\ UNCHANGED <<noremove, removed>>

\* the next call of the plan
Load ==
  /\ status = "ok"
  /\ load # <<>>
  /\ LET e == Head(load)
     IN  /\ \E r \in vqf_insert_val(blocks, metadata, e[1], e[2]) :
              Inserted(e[1], e[2], r)
         /\ load' = IF e[3] > 1
                    THEN << <<e[1], e[2], e[3] - 1>> >> \o Tail(load)
                    ELSE Tail(load)
  /\ nops' = nops

SeqReady == status = "ok" /\ load = <<>> /\ probe = NoProbe /\ nops < MaxOps

InsertVal(h, v) ==
  /\ SeqReady
  /\ \E r \in vqf_insert_val(blocks, metadata, h, v) : Inserted(h, v, r)
  /\ nops' = nops + 1
  /\ load' = load

Insert(h) ==
  /\ SeqReady
  /\ \E r \in vqf_insert(blocks, metadata, h) : Inserted(h, 0, r)
  /\ nops' = nops + 1
  /\ load' = load

Remove(h) ==
  /\ SeqReady
  /\ \E r \in vqf_remove(blocks, metadata, h) :
       /\ Mutated("remove", h, 0, r)
       /\ live' = IF Returned(r.c) /\ r.c.ret THEN live \ {h} ELSE live
       /\ removed' = IF Returned(r.c) /\ r.c.ret THEN removed \cup {h}
                     ELSE removed
  /\ noremove' = FALSE
  /\ nops' = nops + 1
  /\ UNCHANGED <<load, inserted, insvals>>

Looked(op, h, ret, values) ==
  /\ probe' = [op |-> op, hash |-> h, ret |-> ret, values |-> values]
  /\ UNCHANGED <<blocks, metadata, status, load, last, prev, inserted, live,
                 insvals, noremove, removed, nops, thr, calls, res, blocks0>>

\* a run ends with at most one lookup
LookReady == status = "ok" /\ load = <<>> /\ probe = NoProbe

IsPresent(h) ==
  /\ LookReady
  /\ Looked("is_present", h, vqf_is_present(blocks, metadata, h), <<>>)

\* the caller's variable is not initialised by the call: -1 stands for
\* "as the caller left it"
Query(h) ==
  /\ LookReady
  /\ LET r == vqf_query(blocks, metadata, h, -1)
     IN  Looked("query", h, r.ret, <<r.val>>)

QueryIter(h) ==
  /\ LookReady
  /\ LET r == vqf_query_iter(blocks, metadata, h, <<>>)
     IN  Looked("query_iter", h, r.ret, r.values)

Next ==
  \/ Load
  \/ \E h \in Hashes, v \in Vals : InsertVal(h, v)
  \/ \E h \in Hashes : Insert(h)
  \/ \E h \in Hashes : Remove(h)
  \/ \E h \in Hashes : IsPresent(h)
  \/ \E h \in Hashes : Query(h)
  \/ \E h \in Hashes : QueryIter(h)

Spec == Init /\ [][Next]_vars

----------------------------------------------------------------------------
(* Several callers: after the load, each thread makes up to MaxCalls calls, *)
(* and the calls advance one step at a time in any order                    *)

ConcInserts == {KeyA, KeyD, KeyS}
ConcVals == {7}
ConcRemoves == {FillLow}

ConcReady(t) ==
  /\ status = "ok"
  /\ load = <<>>
  /\ thr[t].pc = "idle"
  /\ calls[t] < MaxCalls

Called(t, op, h, v) ==
  /\ thr' = [thr EXCEPT ![t] = NewCall(op, h, v, metadata)]
  /\ calls' = [calls EXCEPT ![t] = @ + 1]
  /\ UNCHANGED <<blocks, metadata, status, load, last, prev, probe, inserted,
                 live, insvals, noremove, removed, nops, res, blocks0>>

CallInsertVal(t, h, v) ==
  /\ ConcReady(t)
  /\ Called(t, "insert", h, v)

CallRemove(t, h) ==
  /\ ConcReady(t)
  /\ Called(t, "remove", h, 0)

Running(t) == status = "ok" /\ thr[t].pc \notin {"idle", "done", "crashed"}

\* a step that changes nothing is a turn of the spin loop: not a transition
Stepped(t, r) ==
  /\ r.B # blocks \/ r.c # thr[t]
  /\ blocks' = r.B
  /\ thr' = [thr EXCEPT ![t] = r.c]
  /\ status' = IF r.c.pc = "crashed" THEN "crashed" ELSE status
  /\ UNCHANGED <<metadata, load, last, prev, probe, inserted, live, insvals,
                 noremove, removed, nops, calls, res, blocks0>>

StepInsert(t) ==
  /\ Running(t)
  /\ thr[t].op = "insert"
  /\ \E r \in InsertStep(blocks, thr[t]) : Stepped(t, r)

StepRemove(t) ==
  /\ Running(t)
  /\ thr[t].op = "remove"
  /\ \E r \in RemoveStep(blocks, thr[t]) : Stepped(t, r)

Return(t) ==
  /\ status = "ok"
  /\ thr[t].pc = "done"
  /\ res' = [res EXCEPT ![t] =
               Append(@, [op |-> thr[t].op, hash |-> thr[t].hash,
                          val |-> thr[t].val, ret |-> thr[t].ret])]
  /\ thr' = [thr EXCEPT ![t] = NoCall]
  /\ status' = IF thr[t].ub THEN "corrupt" ELSE status
  /\ UNCHANGED <<blocks, metadata, load, last, prev, probe, inserted, live,
                 insvals, noremove, removed, nops, calls, blocks0>>

NextConc ==
  \/ Load
  \/ \E t \in Threads, h \in ConcInserts, v \in ConcVals : CallInsertVal(t, h, v)
  \/ \E t \in Threads, h \in ConcRemoves : CallRemove(t, h)
  \/ \E t \in Threads : StepInsert(t)
  \/ \E t \in Threads : StepRemove(t)
  \/ \E t \in Threads : Return(t)

SpecConc == InitConc /\ [][NextConc]_vars

----------------------------------------------------------------------------
(* Bucket addressing on its own: the two bucket indexes every operation     *)
(* computes from its hash argument before it touches a block                *)

AddrCount == 200
AddrStride == 257

\* hashes below and above metadata.range (all below 2^16)
AddrHashes == {i * AddrStride : i \in 0..AddrCount}

InitAddr == \E cell \in Garbage : InitWith(<<>>, cell)

Address(h) ==
  /\ probe = NoProbe
  /\ Looked("address", h, FALSE,
            <<primary_bucket(h), alt_bucket(h, metadata.range)>>)

NextAddr == \E h \in AddrHashes : Address(h)

SpecAddr == InitAddr /\ [][NextAddr]_vars

----------------------------------------------------------------------------
(* Filters of every requested size: vqf_init(nslots), then one lookup on    *)
(* the fresh filter.  The call is recorded in last, its argument in val.    *)

MaxInitSlots == 120

InitSized(nslots, cell) ==
  /\ metadata = vqf_init_metadata(nslots)
  /\ blocks = vqf_init_blocks(nslots, cell)
  /\ blocks0 = blocks
  /\ status = "ok"
  /\ load = <<>>
  /\ last = [NoOp(blocks) EXCEPT !.op = "init", !.val = nslots,
                                 !.returned = TRUE]
  /\ prev = NoOp(blocks)
  /\ probe = NoProbe
  /\ inserted = {}
  /\ live = {}
  /\ insvals = [h \in AllHashes |-> <<>>]
  /\ noremove = TRUE
  /\ removed = {}
  /\ nops = 0
  /\ thr = [t \in Threads |-> NoCall]
  /\ calls = [t \in Threads |-> 0]
  /\ res = [t \in Threads |-> <<>>]

InitSizes == \E nslots \in 0..MaxInitSlots, cell \in Garbage : InitSized(nslots, cell)

NextSizes == \E h \in Hashes : IsPresent(h)

SpecSizes == InitSizes /\ [][NextSizes]_vars

----------------------------------------------------------------------------
(* The match scanner on its own: filters built by a plan and up to          *)
(* MaxScanOps further calls, then one generate_match_mask call for any of   *)
(* the buckets and tags below                                               *)

MaxScanOps == 2

\* the first and last buckets of both blocks and the buckets the hashes use
ScanBuckets == {0, 5, 12, 18, 34, 35, 36, 37, 41, 71}
ScanTags == {0, 1, 42}

ScanReady == status = "ok" /\ probe = NoProbe

\* the call is recorded with the hash that has this bucket and tag
Scan(bucket, tag) ==
  /\ ScanReady
  /\ Looked("scan", bucket * UINT8_RANGE + tag, FALSE,
            <<generate_match_mask(blocks, tag, bucket)>>)

NextScan ==
  \/ Load
  \/ \E h \in Hashes, v \in Vals : nops < MaxScanOps /\ InsertVal(h, v)
  \/ \E h \in Hashes : nops < MaxScanOps /\ Remove(h)
  \/ \E bucket \in ScanBuckets, tag \in ScanTags : Scan(bucket, tag)

SpecScan == Init /\ [][NextScan]_vars

----------------------------------------------------------------------------
(* The select of the 128-bit metadata word of ququ_filter.c.  A __uint128_t *)
(* is the set of its set bit positions, 0..127.                            *)

\* position of the rank'th 1, counting from 0; tzcnt of zero is 64
word_select(val, rank) == tzcnt_u64(pdep_u64({rank}, val))

select_128(vector, rank) ==
  IF rank = 0 THEN -1
  ELSE LET lower_word == vector \cap WordBits
           lower_rank == word_rank(lower_word)
       IN  IF lower_rank > rank THEN word_select(lower_word, rank)
           ELSE LET rank2       == rank - lower_rank
                    higher_word == {i - 64 : i \in vector \ WordBits}
                IN  IF word_rank(lower_word) > rank2
                    THEN word_select(higher_word, rank2)
                    ELSE 128

MaxSelectRank == 9

\* words with bits at both ends of both halves
SelectBits == {0, 1, 5, 63, 64, 65, 100, 127}

SelectVectors == SUBSET SelectBits

\* one call, recorded with its rank, its vector and its result
Select128(vector, rank) ==
  /\ probe = NoProbe
  /\ Looked("select_128", rank, FALSE, <<vector, select_128(vector, rank)>>)

NextSelect ==
  \E vector \in SelectVectors, rank \in 0..MaxSelectRank :
    Select128(vector, rank)

SpecSelect == InitAddr /\ [][NextSelect]_vars

----------------------------------------------------------------------------
(* What the claims speak of *)

\* number of tags a block holds: the zero bits of its metadata word below
\* the lock bit (every insert shifts one in, see update_md)
block_load(B, b) == Cardinality(UNLOCK_MASK \ B[b].md)

Full(B, b) == block_load(B, b) = QUQU_SLOTS_PER_BLOCK

Buckets(M) == 0..(M.nblocks * QUQU_BUCKETS_PER_BLOCK - 1)

RECURSIVE Ascending(_)
Ascending(set) ==
  IF set = {} THEN <<>>
  ELSE <<tzcnt_u64(set)>> \o Ascending(set \ {tzcnt_u64(set)})

\* the cells of a bucket's run, lowest slot first
bucket_run(B, bucket) ==
  LET sl == Ascending(bucket_span(B, bucket) \cap Slots)
  IN  [k \in 1..Len(sl) |-> B[block_of(bucket)].tags[sl[k]]]

Candidates(M, h) == {primary_bucket(h), alt_bucket(h, M.range)}

\* two hashes a filter cannot tell apart in some bucket
Collide(M, h, g) ==
  /\ h # g
  /\ hash_tag(h) = hash_tag(g)
  /\ Candidates(M, h) \cap Candidates(M, g) # {}

Count(seq, v) == Cardinality({i \in DOMAIN seq : seq[i] = v})

SameBag(s1, s2) ==
  /\ Len(s1) = Len(s2)
  /\ \A i \in DOMAIN s1 : Count(s1, s1[i]) = Count(s2, s1[i])

RemoveAt(seq, k) == [i \in 1..(Len(seq) - 1) |-> IF i < k THEN seq[i] ELSE seq[i + 1]]

----------------------------------------------------------------------------
(* Claims *)

\* C1: no false negatives.  After any sequence of insert and remove calls,
\* vqf_is_present(h) is true for every hash h whose insert returned true and
\* which has not been removed since -- here even granting that the removal
\* of a colliding hash may take h's cell.
C1_NoFalseNegatives ==
  status = "ok" =>
    \A h \in live :
      (\A g \in removed : ~Collide(metadata, h, g))
        => vqf_is_present(blocks, metadata, h)

\* C2: capacity.  When the primary and the alternate block of a hash are
\* both full (in two blocks or in the same block), vqf_insert_val returns
\* false and leaves every block as it was; and no insert changes a block
\* that already holds 28 tags.
C2_Capacity ==
  (status = "ok" /\ last.op = "insert" /\ last.returned) =>
    LET Bf == last.before
        pb == block_of(primary_bucket(last.hash))
        ab == block_of(alt_bucket(last.hash, metadata.range))
    IN  /\ (Full(Bf, pb) /\ Full(Bf, ab)) => (~last.ret /\ blocks = Bf)
        /\ \A b \in DOMAIN Bf : Full(Bf, b) => blocks[b] = Bf[b]

\* C3: value round-trip.  After vqf_insert_val(h, v) returned true on a
\* filter where no cell of h's two candidate buckets carried h's tag,
\* vqf_query(h, out) returns true and sets out to v.
C3_ValueRoundTrip ==
  (last.op = "insert" /\ last.ret /\ ~last.present) =>
    vqf_query(blocks, metadata, last.hash, -1) = [ret |-> TRUE, val |-> last.val]

\* C4: multi-value retrieval.  After k successful vqf_insert_val(h, v_i) and
\* no removes, vqf_query_iter(h) appends exactly the multiset {v_1..v_k},
\* wherever each insert was placed, and returns true iff there is a match
\* (for hashes that collide with no other inserted hash).
C4_QueryIterAll ==
  (status = "ok" /\ noremove) =>
    \A h \in AllHashes :
      (\A g \in inserted : ~Collide(metadata, h, g)) =>
        LET r == vqf_query_iter(blocks, metadata, h, <<>>)
        IN  /\ r.ret = (insvals[h] # <<>>)
            /\ SameBag(r.values, insvals[h])

\* C5: insert/remove round-trip.  If h is not reported present, then after
\* vqf_insert_val(h, v) returned true a following vqf_remove(h) returns
\* true, afterwards vqf_is_present(h) is false, and every bucket run of the
\* touched block is what it was before the insert.
C5_InsertRemoveRoundTrip ==
  (status = "ok" /\ last.op = "remove" /\ last.returned
     /\ prev.op = "insert" /\ prev.hash = last.hash /\ prev.ret
     /\ ~prev.present) =>
    /\ last.ret
    /\ ~vqf_is_present(blocks, metadata, last.hash)
    /\ \A g \in Buckets(metadata) :
         block_of(g) = block_of(prev.target)
           => bucket_run(blocks, g) = bucket_run(prev.before, g)

\* C6 as stated: vqf_remove(h) for a hash that was never inserted returns
\* false and changes nothing, in every filter state.
C6_RemoveNeverInserted ==
  (status = "ok" /\ last.op = "remove" /\ last.returned
     /\ last.hash \notin inserted) =>
    (~last.ret /\ blocks = last.before)

\* C6, amended: vqf_remove(h) for a hash that vqf_is_present does not report
\* (no cell of its two candidate buckets carries its tag) returns false and
\* changes nothing: nelts, every metadata word and every tag cell are as
\* before the call.
C6_RemoveAbsent ==
  (last.op = "remove" /\ ~last.present) =>
    /\ last.returned /\ ~last.ret
    /\ blocks = last.before
    /\ metadata = vqf_init_metadata(InitSlots)

C6_Witness ==
  /\ last.op = "remove" /\ ~last.present /\ ~last.ret
  /\ last.hash \notin inserted
  /\ live # {}

\* C7: a vqf_remove(h) that returns true removes exactly the lowest matching
\* slot of the first candidate bucket (primary, then alternate) with a
\* match: that run loses this one cell, its other cells keep their order,
\* and every other bucket run, in every block, is unchanged.
C7_RemoveExactlyOne ==
  (status = "ok" /\ last.op = "remove" /\ last.ret) =>
    LET Bf     == last.before
        tag    == hash_tag(last.hash)
        prim   == primary_bucket(last.hash)
        bucket == IF check_tags(Bf, tag, prim) THEN prim
                  ELSE alt_bucket(last.hash, metadata.range)
        slot   == tzcnt_u64(generate_match_mask(Bf, tag, bucket))
        first  == tzcnt_u64(bucket_span(Bf, bucket))
    IN  /\ bucket_run(blocks, bucket)
             = RemoveAt(bucket_run(Bf, bucket), slot - first + 1)
        /\ \A g \in Buckets(metadata) \ {bucket} :
             bucket_run(blocks, g) = bucket_run(Bf, g)

\* the calls of two threads in every order that keeps each thread's own
RECURSIVE Merges(_, _)
Merges(s1, s2) ==
  IF s1 = <<>> THEN {s2}
  ELSE IF s2 = <<>> THEN {s1}
  ELSE {<<Head(s1)>> \o m : m \in Merges(Tail(s1), s2)}
       \cup {<<Head(s2)>> \o m : m \in Merges(s1, Tail(s2))}

\* the blocks after the insert calls of ops made one after the other from B,
\* each returning what it returned
RECURSIVE Replay(_, _, _)
Replay(B, M, ops) ==
  IF ops = <<>> THEN {B}
  ELSE UNION {Replay(r.B, M, Tail(ops)) :
                r \in {x \in vqf_insert_val(B, M, Head(ops).hash, Head(ops).val) :
                         Returned(x.c) /\ ~x.c.ub /\ x.c.ret = Head(ops).ret}}

Returns == UNION {{res[t][i] : i \in DOMAIN res[t]} : t \in Threads}

Quiescent == load = <<>> /\ \A t \in Threads : thr[t].pc = "idle"

\* C8: no lost inserts under concurrency.  For concurrent vqf_insert_val
\* calls on distinct keys, once all calls have returned every hash whose
\* insert returned true is reported present, no block holds more than 28
\* tags, and the blocks are those of some sequential order of the inserts.
C8_NoLostInserts ==
  (/\ status = "ok" /\ Quiescent
   /\ \A x \in Returns : x.op = "insert"
   /\ \A x, y \in Returns : x.hash = y.hash => x = y
   /\ \A t, u \in Threads : t # u =>
        \A i \in DOMAIN res[t], j \in DOMAIN res[u] : res[t][i].hash # res[u][j].hash) =>
    /\ \A x \in Returns : x.ret => vqf_is_present(blocks, metadata, x.hash)
    /\ \A b \in DOMAIN blocks : block_load(blocks, b) <= QUQU_SLOTS_PER_BLOCK
    /\ \E t, u \in Threads :
         /\ t # u
         /\ blocks \in UNION {Replay(blocks0, metadata, m) : m \in Merges(res[t], res[u])}

\* the block whose tag array or metadata word the call of t is changing:
\* from the memmove of the tag array to the store of the metadata word
Writing(t, b) ==
  /\ thr[t].pc \in {"i_tags", "i_md_load", "i_md_store",
                    "r_tags", "r_md_load", "r_md_store"}
  /\ block_of(thr[t].block_index) = b

Holds(t, b) == \E i \in DOMAIN thr[t].held : thr[t].held[i] = b

\* C9: writer mutual exclusion.  No two mutating calls of different threads
\* change the metadata word or tag array of one block at the same time, and
\* every block mutation, by insert and by remove alike, is made while the
\* thread holds that block's lock.
C9_WriterExclusion ==
  \A b \in DOMAIN blocks :
    /\ \A t \in Threads : Writing(t, b) => Holds(t, b)
    /\ \A t, u \in Threads : (t # u /\ Writing(t, b)) => ~Writing(u, b)

LockWanted(c) ==
  CASE c.pc = "i_lock"  -> block_of(primary_bucket(c.hash))
    [] c.pc = "i_lockA" -> lock_blocks(primary_bucket(c.hash), c.alt_block_index)[1]
    [] c.pc = "i_lockB" -> lock_blocks(primary_bucket(c.hash), c.alt_block_index)[2]

\* the call of t is in the spin loop of lock() and finds the bit set
Spinning(t) ==
  /\ thr[t].pc \in {"i_lock", "i_lockA", "i_lockB"}
  /\ ~lock_free(blocks, LockWanted(thr[t]))

\* C11: deadlock freedom.  No block's lock bit is set while no thread owns
\* the lock, and no vqf_insert_val call spins on a lock bit that no thread
\* is there to clear (such a call never returns, however it is scheduled).
C11_DeadlockFreedom ==
  /\ \A b \in DOMAIN blocks :
       LOCK_BIT \in blocks[b].md => \E t \in Threads : Holds(t, b)
  /\ \A t \in Threads :
       Spinning(t) => \E u \in Threads : Holds(u, LockWanted(thr[t]))

\* the hashes stored before now: those of the load and those of the insert
\* calls that have returned true
Stored == live \cup {x.hash : x \in {y \in Returns : y.op = "insert" /\ y.ret}}

NoRemoveCalled ==
  /\ \A t \in Threads : thr[t].op # "remove"
  /\ \A x \in Returns : x.op # "remove"

\* C12: lock-free readers.  A lookup that runs without a lock at any point of
\* a concurrent insert (between the writer's tag shift and its metadata
\* store included, and whatever the lock bit) reports present every hash
\* that was stored before the lookup started and has not been removed.
C12_LockFreeReaders ==
  (status = "ok" /\ NoRemoveCalled) =>
    \A k \in Stored :
      /\ vqf_is_present(blocks, metadata, k)
      /\ vqf_query(blocks, metadata, k, -1).ret
      /\ vqf_query_iter(blocks, metadata, k, <<>>).ret

\* number of insert calls that returned true so far
InsertsReturnedTrue ==
  Cardinality(UNION {{<<h, i>> : i \in DOMAIN insvals[h]} : h \in AllHashes})

\* C13: element count.  After any sequence of insert, insert_val and lookup
\* calls, metadata.nelts is the number of insert calls that returned true
\* (0 after vqf_init, one more after every successful insert).
C13_ElementCount ==
  (status = "ok" /\ noremove) => metadata.nelts = InsertsReturnedTrue

\* number of set bits among the low 63 bits of a block's metadata word
low63_popcount(B, b) == Cardinality(B[b].md \cap UNLOCK_MASK)

C15_BucketsInRange ==
  probe.op = "address" =>
    /\ probe.values[1] \in Buckets(metadata)
    /\ probe.values[2] \in Buckets(metadata)
    /\ block_of(probe.values[1]) \in DOMAIN blocks
    /\ block_of(probe.values[2]) \in DOMAIN blocks

\* C16 as stated: vqf_init(nslots) creates ceil((nslots + 28) / 28) blocks,
\* for every nslots, with nslots recorded as nblocks * 28 and range as
\* nblocks * 36 * 256.
C16_InitCeil ==
  last.op = "init" =>
    /\ metadata.nblocks * QUQU_SLOTS_PER_BLOCK >= last.val + QUQU_SLOTS_PER_BLOCK
    /\ (metadata.nblocks - 1) * QUQU_SLOTS_PER_BLOCK < last.val + QUQU_SLOTS_PER_BLOCK
    /\ metadata.nslots = metadata.nblocks * QUQU_SLOTS_PER_BLOCK
    /\ metadata.range = metadata.nblocks * QUQU_BUCKETS_PER_BLOCK * UINT8_RANGE

\* C16, amended: vqf_init(nslots) creates floor((nslots + 28) / 28), that is
\* floor(nslots / 28) + 1, blocks (the quotient is rounded down), records
\* nslots as nblocks * 28, range as nblocks * 36 * 256, and allocates that
\* many blocks.
C16_InitFloor ==
  last.op = "init" =>
    /\ metadata.nblocks * QUQU_SLOTS_PER_BLOCK <= last.val + QUQU_SLOTS_PER_BLOCK
    /\ (metadata.nblocks + 1) * QUQU_SLOTS_PER_BLOCK > last.val + QUQU_SLOTS_PER_BLOCK
    /\ metadata.nblocks = (last.val \div QUQU_SLOTS_PER_BLOCK) + 1
    /\ metadata.nslots = metadata.nblocks * QUQU_SLOTS_PER_BLOCK
    /\ metadata.range = metadata.nblocks * QUQU_BUCKETS_PER_BLOCK * UINT8_RANGE
    /\ DOMAIN blocks = 0..(metadata.nblocks - 1)

\* a filter asked for a size that is not a whole number of blocks, in use
C16_Witness ==
  /\ last.op = "init" /\ last.val % QUQU_SLOTS_PER_BLOCK # 0
  /\ metadata.nblocks = 3
  /\ probe.op = "is_present"

\* the first candidate bucket of h, primary before alternate, with a cell
\* that carries h's tag
MatchBucket(B, M, h) ==
  IF check_tags(B, hash_tag(h), primary_bucket(h)) THEN primary_bucket(h)
  ELSE alt_bucket(h, M.range)

\* the value byte of the lowest matching slot of that bucket
FirstMatchValue(B, M, h) ==
  LET bucket == MatchBucket(B, M, h)
      slot   == tzcnt_u64(generate_match_mask(B, hash_tag(h), bucket))
  IN  B[block_of(bucket)].tags[slot] \div UINT8_RANGE

\* C17: lookup agreement.  In every filter state and for every hash,
\* vqf_query and vqf_query_iter return the boolean vqf_is_present returns;
\* when it is true vqf_query yields the value byte of the lowest matching
\* slot, primary bucket before alternate (when false it leaves the caller's
\* variable alone), and vqf_query_iter yields values exactly when it is true.
C17_LookupAgreement ==
  probe.op \in {"is_present", "query", "query_iter"} =>
    LET p == vqf_is_present(blocks, metadata, probe.hash)
    IN  /\ probe.ret = p
        /\ probe.op = "query" =>
             probe.values = <<IF p THEN FirstMatchValue(blocks, metadata, probe.hash)
                              ELSE -1>>
        /\ probe.op = "query_iter" => ((probe.values # <<>>) = p)

\* vqf_query found the hash in both candidate buckets, with different values
C17_Witness ==
  /\ probe.op = "query" /\ probe.ret
  /\ check_tags(blocks, hash_tag(probe.hash), primary_bucket(probe.hash))
  /\ check_tags(blocks, hash_tag(probe.hash), alt_bucket(probe.hash, metadata.range))
  /\ primary_bucket(probe.hash) # alt_bucket(probe.hash, metadata.range)
  /\ probe.values = <<FirstMatchValue(blocks, metadata, probe.hash)>>
  /\ probe.values # <<retrieve_value(blocks, hash_tag(probe.hash),
                                     alt_bucket(probe.hash, metadata.range), -1).val>>

\* the free space of block b as an insert reads it: the set bits of the
\* metadata word while the caller holds the block's lock
BlockFree(B, b) == Cardinality(lock(B, b)[b].md)

\* C18: two-choice policy.  vqf_insert_val stores the tag in the primary
\* block unless the primary block's free space is below 43 and the alternate
\* bucket lies in a different block whose free space is strictly greater;
\* only then is it stored in the alternate block.  On equal free space, or
\* when both buckets share a block, it stays in the primary.
C18_TwoChoicePolicy ==
  (status = "ok" /\ last.op = "insert" /\ last.ret) =>
    LET Bf     == last.before
        prim   == primary_bucket(last.hash)
        alt    == alt_bucket(last.hash, metadata.range)
        UseAlt == /\ BlockFree(Bf, block_of(prim)) < QUQU_CHECK_ALT
                  /\ block_of(prim) # block_of(alt)
                  /\ BlockFree(Bf, block_of(alt)) > BlockFree(Bf, block_of(prim))
    IN  /\ last.target = IF UseAlt THEN alt ELSE prim
        /\ blocks[block_of(last.target)] # Bf[block_of(last.target)]
        /\ \A b \in DOMAIN blocks : b # block_of(last.target) => blocks[b] = Bf[b]

\* an insert went to the alternate block
C18_Witness ==
  /\ status = "ok" /\ last.op = "insert" /\ last.ret
  /\ last.target = alt_bucket(last.hash, metadata.range)
  /\ block_of(last.target) # block_of(primary_bucket(last.hash))
  /\ blocks[block_of(last.target)] # last.before[block_of(last.target)]

\* C19: re-read under both locks.  When an insert has released the primary
\* lock and holds both locks, the primary free-space value on which it
\* chooses the target block and tests for a full filter is the one the
\* primary block has now, under the locks, not one another thread changed
\* in between.
C19_RereadUnderLocks ==
  (status = "ok" /\ NoRemoveCalled) =>
    \A t \in Threads :
      (thr[t].pc = "i_altfree" /\ Len(thr[t].held) = 2) =>
        thr[t].block_free =
          get_block_free_space(blocks[block_of(primary_bucket(thr[t].hash))].md)

\* the bit of a metadata word that closes the run of the bucket at offset:
\* its (offset + 1)-th set bit
RunEndBit(md, offset) == CHOOSE i \in md : RankBelow(md, i) = offset

\* the slot one past the end of that run: the clear bits (cells) below it
RunEnd(B, bucket) ==
  RunEndBit(B[block_of(bucket)].md, offset_of(bucket)) - offset_of(bucket)

\* C20: insert frame effect.  An insert that returns true writes the cell
\* (tag | val << 8) at the slot one past the end of its bucket's run, makes
\* that run one longer and no other (the metadata word gets one clear bit at
\* the end of that run, the bits above it move up by one), keeps every cell
\* that was in the block (those at or after the slot one place to the
\* right), and changes no other block.
C20_InsertFrame ==
  (status = "ok" /\ last.op = "insert" /\ last.ret) =>
    LET Bf   == last.before
        b    == last.target
        blk  == block_of(b)
        cell == hash_tag(last.hash) + last.val * UINT8_RANGE
        p    == RunEndBit(Bf[blk].md, offset_of(b))
        s    == RunEnd(Bf, b)
        used == block_load(Bf, blk)
    IN  /\ s \in Slots
        /\ blocks[blk].tags[s] = cell
        /\ \A i \in Slots : i < s => blocks[blk].tags[i] = Bf[blk].tags[i]
        /\ \A i \in Slots : (s <= i /\ i < used) =>
              (i + 1 \in Slots /\ blocks[blk].tags[i + 1] = Bf[blk].tags[i])
        /\ bucket_run(blocks, b) = Append(bucket_run(Bf, b), cell)
        /\ \A i \in UNLOCK_MASK :
              (i \in blocks[blk].md) =
                (IF i < p THEN i \in Bf[blk].md
                 ELSE IF i = p THEN FALSE
                 ELSE (i - 1) \in Bf[blk].md)
        /\ \A o \in DOMAIN blocks : o # blk => blocks[o] = Bf[o]

\* slot i belongs to the run of the bucket at offset: the clear bit number i
\* of the metadata word (counted from bit 0) has exactly offset set bits
\* below it
InRun(md, offset, i) ==
  \E z \in UNLOCK_MASK \ md :
    /\ z - RankBelow(md, z) = i
    /\ RankBelow(md, z) = offset

\* C21: match scanner exactness.  For every block state, bucket and tag,
\* bit i of generate_match_mask is set iff slot i lies inside the bucket's
\* run and the low 8 bits of tags[i] equal the tag; value bytes, slots of
\* other buckets and slots beyond the block's occupancy do not count.
C21_MatchMaskExact ==
  probe.op = "scan" =>
    LET bucket == primary_bucket(probe.hash)
        tag    == hash_tag(probe.hash)
        blk    == blocks[block_of(bucket)]
    IN  probe.values[1] =
          {i \in Slots : /\ InRun(blk.md, offset_of(bucket), i)
                         /\ blk.tags[i] % UINT8_RANGE = tag}

\* a scan found its tag in the bucket, in a cell with a non-zero value byte,
\* while an occupied slot of another bucket carries the same tag
C21_Witness ==
  /\ probe.op = "scan" /\ probe.values[1] # {}
  /\ LET blk == blocks[block_of(primary_bucket(probe.hash))]
     IN  /\ \E i \in probe.values[1] : blk.tags[i] \div UINT8_RANGE # 0
         /\ \E i \in Slots \ probe.values[1] :
               /\ i < block_load(blocks, block_of(primary_bucket(probe.hash)))
               /\ blk.tags[i] % UINT8_RANGE = hash_tag(probe.hash)

\* C22: the metadata mutations keep the lock bit.  update_md (insert a zero
\* at position p) and remove_md (delete the bit at position p) leave bit 63
\* of the metadata word exactly as it was before the call, for every word
\* and position they are called with.
C22_LockBitKept ==
  \A t \in Threads :
    /\ thr[t].pc = "i_md_store" =>
         \A w \in table_past(thr[t].select_index) :
           (LOCK_BIT \in update_md(thr[t].tmp, thr[t].select_index, w))
             <=> (LOCK_BIT \in thr[t].tmp)
    /\ thr[t].pc = "r_md_store" =>
         \A w \in table_past(thr[t].select_index) :
           (LOCK_BIT \in remove_md(thr[t].tmp, thr[t].select_index, w))
             <=> (LOCK_BIT \in thr[t].tmp)

\* C23: the unary encoding never reaches the lock bit.  In every reachable
\* state of every block, a block holding 28 tags included, all 36 bucket
\* delimiters lie in bits 0..62 of the metadata word: the 36th set bit exists
\* and is at a position <= 62, so clearing bit 63 on unlock loses none.
C23_DelimitersBelowLock ==
  status = "ok" =>
    \A b \in DOMAIN blocks :
      \E i \in blocks[b].md \cap UNLOCK_MASK :
        RankBelow(blocks[b].md, i) = QUQU_BUCKETS_PER_BLOCK - 1

\* the change of get_block_free_space of block b made by the last call
FreeSpaceChange(b) ==
  get_block_free_space(blocks[b].md) - get_block_free_space(last.before[b].md)

\* C24: free-space accounting.  get_block_free_space(md) plus the number of
\* tags stored in the block is one constant: every block starts from the
\* initial word, each successful insert into a block lowers its free space
\* by exactly one, each successful remove raises it by exactly one, and no
\* call changes the free space of another block; so free space is 36
\* exactly when the block holds 28 tags.
C24_FreeSpaceAccounting ==
  /\ (inserted = {} /\ noremove) =>
       \A b \in DOMAIN blocks : get_block_free_space(blocks[b].md) = LOCK_BIT
  /\ (status = "ok" /\ last.returned /\ last.op \in {"insert", "remove"}) =>
       \A b \in DOMAIN blocks :
         FreeSpaceChange(b) =
           IF last.ret /\ b = block_of(last.target)
           THEN (IF last.op = "insert" THEN -1 ELSE 1)
           ELSE 0

\* the block that the call's next step unlocks
UnlockNext(c) ==
  LET prim == primary_bucket(c.hash)
      alt  == c.alt_block_index
  IN  CASE c.pc \in {"i_unlock1", "i_switch"} -> block_of(prim)
        [] c.pc = "i_fullA"      -> unlock_blocks(prim, alt)[1]
        [] c.pc = "i_fullB"      -> unlock_blocks(prim, alt)[2]
        [] c.pc = "i_unlock_alt" -> block_of(alt)
        [] c.pc = "i_unlock"     -> block_of(c.block_index)

HeldCount(c, b) == Cardinality({i \in DOMAIN c.held : c.held[i] = b})

C26_Select128 ==
  probe.op = "select_128" =>
    LET vector == probe.values[1]
        rank   == probe.hash
        result == probe.values[2]
    IN  /\ rank = 0 => result = -1
        /\ (1 <= rank /\ rank <= Cardinality(vector)) =>
             /\ result \in vector
             /\ Cardinality({i \in vector : i < result}) = rank - 1
        /\ rank > Cardinality(vector) => result = 128

====
